---- MODULE Spec2Model ----
(***************************************************************************)
(* Balsam transition engine (balsam/launcher/transitions.py): the pool of *)
(* transition processes, each running main()/_main() over a private cache *)
(* of locked BalsamJobs, fast_forward, the transition functions and the   *)
(* bulk write-back, against one shared job store.                         *)
(* Also the backfill windows CobaltScheduler computes from the output of   *)
(* the nodelist command (balsam/platform/scheduler/cobalt_sched.py).       *)
(***************************************************************************)
EXTENDS Integers, Sequences, FiniteSets, TLC

\* ---------------------------------------------------------------- bounds
NumWorkers == 2
NumJobs == 2
\* node lines in the output of the nodelist command, and queues they name
MaxNodes == 3
NumQueues == 2

Workers == 1..NumWorkers
Jobs == 1..NumJobs
NoOwner == 0
Queues == 1..NumQueues

\* ---------------------------------------------------------------- states
States == {"CREATED", "AWAITING_PARENTS", "READY", "STAGED_IN", "PREPROCESSED",
           "RUNNING", "RUN_DONE", "RUN_TIMEOUT", "RUN_ERROR", "POSTPROCESSED",
           "RESTART_READY", "JOB_FINISHED", "FAILED"}

\* balsam.service.models.PROCESSABLE_STATES (imported at transitions.py:37)
PROCESSABLE_STATES == {"CREATED", "AWAITING_PARENTS", "READY", "STAGED_IN",
                       "RUN_DONE", "POSTPROCESSED", "RUN_TIMEOUT", "RUN_ERROR"}

\* keys of the TRANSITIONS dict
TRANSITIONS == {"READY", "STAGED_IN", "RUN_DONE", "RUN_TIMEOUT", "RUN_ERROR",
                "POSTPROCESSED"}

\* no job object / nothing stored
NoState == "NONE"
\* the one-element tuple ('POSTPROCESSED',) that postprocess assigns at line 384
TuplePostprocessed == "('POSTPROCESSED',)"

MemValues == States \cup {NoState, TuplePostprocessed}

\* A job's configuration, each field by its truthiness as the code tests it.
JobAttrs == [parents : SUBSET Jobs,
             wait_for_parents : BOOLEAN,
             input_files : BOOLEAN,
             stage_in_url : BOOLEAN,
             preprocess : BOOLEAN,
             postprocess : BOOLEAN,
             post_error_handler : BOOLEAN,
             post_timeout_handler : BOOLEAN,
             auto_timeout_retry : BOOLEAN,
             stage_out_url : BOOLEAN,
             stage_out_files : BOOLEAN]

VARIABLES
    attr,       \* attr[j]: the configuration of job j (never changes)
    db,         \* db[j]: the state of job j persisted in the job store
    lock,       \* lock[j]: the worker holding job j's lock, or NoOwner
    workdir,    \* workdir[j]: job j's working directory exists
    cache,      \* cache[w]: worker w's job_cache, a sequence of job ids
    mem,        \* mem[w][j]: job.state of w's in-memory object for job j
    old,        \* old[w][j]: job.__old_state of that object
    pc,         \* pc[w]: where worker w stands in main()/_main()
    idx,        \* idx[w]: position of the for loop of the transition pass
    EXIT_FLAG,  \* EXIT_FLAG[w]: worker w's module-level stop flag
    exc,        \* exc[w]: the exception that escaped _main in w, or "none"
    signalled,  \* terminate(): the number of workers sent SIGTERM so far
    joined,     \* terminate() has joined every worker and returned
    flagAt,     \* flagAt[w]: where the running worker w stood when its stop
                \* flag was set: "unset", "transition" or "elsewhere"
    entry,      \* direct calls: job.state of the cached jobs on entry to the
                \* last direct call of a function of the module
    written,    \* direct calls: update_jobs of that call's write-back
    stdout,     \* the output of the nodelist command, as its lines
    backfill,   \* whether _parse_backfill_output has run on it, and the
                \* windows it returned
    call        \* direct calls: the function last called, the outcome of
                \* its external calls (ev), whether it invoked
                \* subprocess.Popen and the TransferClient, and whether it
                \* left a subprocess running or a staging directory behind

vars == <<attr, db, lock, workdir, cache, mem, old, pc, idx, EXIT_FLAG, exc,
          signalled, joined, flagAt, entry, written,
          call, stdout, backfill>>

\* ---------------------------------------------------------------- helpers
Range(s) == {s[i] : i \in 1..Len(s)}

Min(a, b) == IF a < b THEN a ELSE b

Max(a, b) == IF a > b THEN a ELSE b

\* the ids of S in increasing order
RECURSIVE SortedSeq(_)
SortedSeq(S) ==
    IF S = {} THEN <<>>
    ELSE LET m == CHOOSE x \in S : \A y \in S : x <= y
         IN <<m>> \o SortedSeq(S \ {m})

\* list comprehension [j for j in seq if j in S]
Filter(seq, S) == SelectSeq(seq, LAMBDA j : j \in S)

\* ------------------------------------------------- job store (JobStore)
\* BalsamJob.objects.filter(state__in=PROCESSABLE_STATES).count()
count_processable(d) == Cardinality({j \in Jobs : d[j] \in PROCESSABLE_STATES})

\* the jobs acquire_transitionable may lock: transitionable and unlocked
Acquirable(d, l) == {j \in Jobs : d[j] \in PROCESSABLE_STATES /\ l[j] = NoOwner}

\* manager.acquire_transitionable(n): the sets of jobs one atomic call may
\* lock, up to n of the acquirable jobs (all n when that many are there)
acquire_transitionable(n, d, l) ==
    {S \in SUBSET Acquirable(d, l) :
        Cardinality(S) = Min(n, Cardinality(Acquirable(d, l)))}

\* manager.release(ids): unlock, state untouched
release(ids, l) == [j \in Jobs |-> IF j \in ids THEN NoOwner ELSE l[j]]

\* manager.release_all_owned(): unlock every job locked by w
release_all_owned(w, l) == [j \in Jobs |-> IF l[j] = w THEN NoOwner ELSE l[j]]

\* BalsamJob.batch_update_state(joblist, newstate) for every batch
batch_update_state(b, d) ==
    [j \in Jobs |-> IF \E s \in DOMAIN b : j \in Range(b[s])
                    THEN CHOOSE s \in DOMAIN b : j \in Range(b[s])
                    ELSE d[j]]

\* ------------------------------------------------- update_states_from_cache
\* update_jobs: for each state the pks of the cached jobs now in it whose
\* state differs from __old_state, in cache order
\* a write-back that does not compare job.state with __old_state
update_jobs_all(c, m, o) ==
    [s \in MemValues |-> SelectSeq(c, LAMBDA j : m[j] = s)]

update_jobs(c, m, o) ==
    [s \in MemValues |-> SelectSeq(c, LAMBDA j : m[j] # o[j] /\ m[j] = s)]

\* ------------------------------------------------- refresh_cache
\* round(x) of Python 3 for x = num/den >= 0: to nearest, ties to even
PyRound(num, den) ==
    LET q == num \div den
        r == num % den
    IN IF 2 * r < den THEN q
       ELSE IF 2 * r > den THEN q + 1
       ELSE IF q % 2 = 0 THEN q ELSE q + 1

\* target_count = round(num_transitionable / num_threads + 0.5)
target_count(n, t) == PyRound(2 * n + t, 2 * t)

\* num_to_acquire = max(0, target_count - len(job_cache))
num_to_acquire(n, t, len) == Max(0, target_count(n, t) - len)

\* ------------------------------------------------- release_jobs
\* a release list of the jobs in a terminal state only
release_list_terminal_only(c, m) ==
    {j \in Range(c) : m[j] \in {"JOB_FINISHED", "FAILED"}}

\* release_jobs = [j.pk for j in job_cache if j.state not in PROCESSABLE_STATES]
release_list(c, m) == {j \in Range(c) : m[j] \notin PROCESSABLE_STATES}

\* a release_jobs that returns job_cache itself
kept_cache_unfiltered(c, rel) == c

\* return [j for j in job_cache if j.pk not in release_jobs]
kept_cache(c, rel) == Filter(c, Jobs \ rel)

\* ------------------------------------------------- check_parents
\* a check_parents whose query counts all parents, finished or not
parents_ready_unfiltered(a, d) ==
    \/ Cardinality(a.parents) = 0
    \/ ~a.wait_for_parents
    \/ Cardinality(a.parents) = Cardinality({p \in a.parents : d[p] \in States})

\* ready, as check_parents computes it from the parents' persisted states
parents_ready(a, d) ==
    \/ Cardinality(a.parents) = 0
    \/ ~a.wait_for_parents
    \/ Cardinality(a.parents) =
         Cardinality({p \in a.parents : d[p] = "JOB_FINISHED"})

\* job.state after check_parents(job)
check_parents(a, s, d) ==
    IF parents_ready(a, d) THEN "READY"
    ELSE IF s # "AWAITING_PARENTS" THEN "AWAITING_PARENTS"
    ELSE s

\* ------------------------------------------------- fast_forward
\* Each pass, as it acts on one cached job in state s with configuration a
\* (d: the persisted states, read by check_parents).
ff_check_parents(a, s, d) ==
    IF s \in {"CREATED", "AWAITING_PARENTS"} THEN check_parents(a, s, d) ELSE s

skip_stage_in(a) ==
    ~a.stage_in_url /\ ~(a.parents # {} /\ a.input_files)

ff_stage_in(a, s) ==
    IF s = "READY" /\ skip_stage_in(a) THEN "STAGED_IN" ELSE s

\* fast_forward without its preprocess-skip pass
ff_preprocess_none(a, s) == s

ff_preprocess(a, s) ==
    IF s = "STAGED_IN" /\ ~a.preprocess THEN "PREPROCESSED" ELSE s

ff_postprocess(a, s) ==
    IF s = "RUN_DONE" /\ ~a.postprocess THEN "POSTPROCESSED" ELSE s

\* a retry rule that does not look at the timeout handler
timeout_retry_any_handler(a) == a.auto_timeout_retry

timeout_retry(a) == a.auto_timeout_retry /\ ~a.post_timeout_handler

ff_timeout_retry(a, s) ==
    IF s = "RUN_TIMEOUT" /\ timeout_retry(a) THEN "RESTART_READY" ELSE s

timeout_fail(a) ==
    ~a.auto_timeout_retry /\ ~(a.postprocess /\ a.post_timeout_handler)

\* a timeout-fail pass without its by_states filter on RUN_TIMEOUT
ff_timeout_fail_any_state(a, s) ==
    IF timeout_fail(a) THEN "FAILED" ELSE s

ff_timeout_fail(a, s) ==
    IF s = "RUN_TIMEOUT" /\ timeout_fail(a) THEN "FAILED" ELSE s

\* an error-fail rule that looks at the handler flag only
error_fail_flag_only(a) == ~a.post_error_handler

error_fail(a) == ~(a.post_error_handler /\ a.postprocess)

ff_error_fail(a, s) ==
    IF s = "RUN_ERROR" /\ error_fail(a) THEN "FAILED" ELSE s

skip_stage_out(a) == ~(a.stage_out_url /\ a.stage_out_files)

ff_stage_out(a, s) ==
    IF s = "POSTPROCESSED" /\ skip_stage_out(a) THEN "JOB_FINISHED" ELSE s

\* passes in which the preprocess skip runs before the stage-in skip
ff_trace_preprocess_first(a, s, d) ==
    LET s1 == ff_check_parents(a, s, d)
        s2 == ff_preprocess(a, s1)
        s3 == ff_stage_in(a, s2)
        s4 == ff_postprocess(a, s3)
        s5 == ff_timeout_retry(a, s4)
        s6 == ff_timeout_fail(a, s5)
        s7 == ff_error_fail(a, s6)
        s8 == ff_stage_out(a, s7)
    IN <<s, s1, s2, s3, s4, s5, s6, s7, s8>>

\* job.state of one cached job on entry and after each of the eight passes,
\* in the code's order
ff_trace(a, s, d) ==
    LET s1 == ff_check_parents(a, s, d)
        s2 == ff_stage_in(a, s1)
        s3 == ff_preprocess(a, s2)
        s4 == ff_postprocess(a, s3)
        s5 == ff_timeout_retry(a, s4)
        s6 == ff_timeout_fail(a, s5)
        s7 == ff_error_fail(a, s6)
        s8 == ff_stage_out(a, s7)
    IN <<s, s1, s2, s3, s4, s5, s6, s7, s8>>

\* the in-memory states when fast_forward reaches its write-back: m are the
\* states on entry, C the cached jobs, a[j] the configuration of job j
fast_forward(m, C, a, d) ==
    [j \in Jobs |-> IF j \in C THEN ff_trace(a[j], m[j], d)[9] ELSE m[j]]

\* the assignments (from, to) to job.state made by the passes
ff_edges(m, C, a, d) ==
    {e \in UNION {{<<ff_trace(a[j], m[j], d)[k], ff_trace(a[j], m[j], d)[k + 1]>> :
                     k \in 1..8} : j \in C} : e[1] # e[2]}

\* the working directories after the stage-in pass: made for every job that
\* is READY when the pass reaches it
ff_workdir(m, C, a, d, wd) ==
    [j \in Jobs |-> wd[j] \/ (j \in C /\ ff_check_parents(a[j], m[j], d) = "READY")]

\* ------------------------------------------------- transition functions
\* What the world outside does during one transition: ev is how the
\* subprocess, the filesystem or the transfer behaves, h the state a
\* successful error/timeout handler script stored for the job (NoState: it
\* stored none).
EnvEvents == {"ok", "missing_exe", "spawn_fail", "timeout", "nonzero",
              "transfer_fail", "link_fail", "no_match", "copy_fail"}
HandlerStores == {NoState, "RESTART_READY", "POSTPROCESSED", "FAILED"}
Env == [ev : EnvEvents, h : HandlerStores]

\* The result of a transition function: job.state when it returns or raises,
\* the exception raised ("none", "BalsamTransitionError", or another one),
\* the state the subprocess stored in the job store (NoState: none), and
\* whether subprocess.Popen was invoked, and what the call leaves behind:
\* running, the subprocess still runs; transfer, the TransferClient was
\* invoked; tmpdir, the temporary staging directory exists.
Result(s, e, st) ==
    [state |-> s, exc |-> e, store |-> st, popen |-> FALSE, running |-> FALSE,
     transfer |-> FALSE, tmpdir |-> FALSE]

\* the same result, reached after subprocess.Popen was invoked
Spawned(r) == [r EXCEPT !.popen = TRUE]

\* proc.wait(timeout=...) raised TimeoutExpired: the subprocess still runs
TimedOut(r) == [r EXCEPT !.popen = TRUE, !.running = TRUE]

\* an except clause without proc.kill()
Killed_not(r) == r

\* proc.kill() in the except clause
Killed(r) == [r EXCEPT !.running = FALSE]

\* the same result, reached after the TransferClient was invoked
Transferred(r) == [r EXCEPT !.transfer = TRUE]

\* tempfile.TemporaryDirectory() was entered: the staging directory exists
Staged(r) == [r EXCEPT !.tmpdir = TRUE]

\* a staging directory that is left behind
Cleaned_not(r) == r

\* the with block of the staging directory is left, by return or exception
Cleaned(r) == [r EXCEPT !.tmpdir = FALSE]

Returns(s) == Result(s, "none", NoState)

Raises(s, e) == Result(s, e, NoState)

\* stage_in(job) on a job in state s with configuration a; wd: the working
\* directory exists
stage_in(a, s, wd, env) ==
    LET through(r) == IF a.stage_in_url THEN Transferred(r) ELSE r
    IN IF ~wd THEN Raises(s, "NameError")
       ELSE IF a.stage_in_url /\ env.ev = "transfer_fail"
            THEN Transferred(Raises(s, "BalsamTransitionError"))
       ELSE IF a.parents # {} /\ a.input_files /\ env.ev = "link_fail"
            THEN through(Raises(s, "BalsamTransitionError"))
       ELSE through(Returns("STAGED_IN"))

\* stage_out(job)
stage_out(a, s, env) ==
    IF ~a.stage_out_url THEN Returns("JOB_FINISHED")
    ELSE IF ~a.stage_out_files \/ env.ev = "no_match" THEN Returns("JOB_FINISHED")
    ELSE IF env.ev = "copy_fail"
         THEN Cleaned(Staged(Raises(s, "BalsamTransitionError")))
    ELSE IF env.ev = "transfer_fail"
         THEN Cleaned(Staged(Transferred(Raises(s, "BalsamTransitionError"))))
    ELSE Cleaned(Staged(Transferred(Returns("JOB_FINISHED"))))

\* preprocess(job)
preprocess(a, s, env) ==
    IF ~a.preprocess THEN Returns("PREPROCESSED")
    ELSE IF env.ev = "missing_exe" THEN Raises(s, "BalsamTransitionError")
    ELSE IF env.ev = "spawn_fail" THEN Spawned(Raises(s, "UnboundLocalError"))
    ELSE IF env.ev = "timeout"
         THEN Killed(TimedOut(Raises(s, "BalsamTransitionError")))
    ELSE IF env.ev = "nonzero" THEN Spawned(Raises(s, "BalsamTransitionError"))
    ELSE Spawned(Returns("PREPROCESSED"))

\* postprocess(job, error_handling=..., timeout_handling=...); mode is
\* "plain", "error" or "timeout"; dbs is the job's persisted state
postprocess(a, s, dbs, mode, env) ==
    IF ~a.postprocess
    THEN IF mode = "error" THEN Raises(s, "BalsamTransitionError")
         ELSE IF mode = "timeout" THEN Returns("RESTART_READY")
         ELSE Returns(TuplePostprocessed)
    ELSE IF env.ev = "missing_exe" THEN Raises(s, "BalsamTransitionError")
    ELSE IF env.ev = "spawn_fail" THEN Spawned(Raises(s, "UnboundLocalError"))
    ELSE IF env.ev = "timeout"
         THEN Killed(TimedOut(Raises(s, "BalsamTransitionError")))
    ELSE IF env.ev = "nonzero" THEN Spawned(Raises(s, "BalsamTransitionError"))
    ELSE LET stored == IF mode = "plain" THEN NoState ELSE env.h
             refreshed == IF stored = NoState THEN dbs ELSE stored
         IN IF mode = "error" /\ refreshed = "RUN_ERROR"
            THEN Spawned(Result(refreshed, "BalsamTransitionError", stored))
            ELSE IF mode = "timeout" /\ refreshed = "RUN_TIMEOUT"
            THEN Spawned(Result(refreshed, "BalsamTransitionError", stored))
            ELSE IF mode = "plain"
            THEN Spawned(Result("POSTPROCESSED", "none", stored))
            ELSE Spawned(Result(refreshed, "none", stored))

\* handle_timeout(job)
handle_timeout(a, s, dbs, env) ==
    IF a.post_timeout_handler THEN postprocess(a, s, dbs, "timeout", env)
    ELSE Raises(s, "BalsamTransitionError")

\* handle_run_error(job)
handle_run_error(a, s, dbs, env) ==
    IF a.post_error_handler THEN postprocess(a, s, dbs, "error", env)
    ELSE Raises(s, "BalsamTransitionError")

\* TRANSITIONS[s](job)
transition_function(a, s, dbs, wd, env) ==
    CASE s = "READY" -> stage_in(a, s, wd, env)
      [] s = "STAGED_IN" -> preprocess(a, s, env)
      [] s = "RUN_DONE" -> postprocess(a, s, dbs, "plain", env)
      [] s = "RUN_TIMEOUT" -> handle_timeout(a, s, dbs, env)
      [] s = "RUN_ERROR" -> handle_run_error(a, s, dbs, env)
      [] s = "POSTPROCESSED" -> stage_out(a, s, env)

\* job.state after the try/except of the transition pass (lines 149-156)
after_try(r) ==
    IF r.exc = "BalsamTransitionError" THEN "FAILED" ELSE r.state


\* ------------------------------------------------- configurations explored
Attrs(par, wait, inp, url_in, pre, post, err_h, to_h, retry, url_out, out) ==
    [parents |-> par, wait_for_parents |-> wait, input_files |-> inp,
     stage_in_url |-> url_in, preprocess |-> pre, postprocess |-> post,
     post_error_handler |-> err_h, post_timeout_handler |-> to_h,
     auto_timeout_retry |-> retry, stage_out_url |-> url_out,
     stage_out_files |-> out]

\* the job configurations the worker-pool runs draw from
Profiles ==
    { \* nothing configured: every step is skipped by fast_forward
      Attrs({}, TRUE, FALSE, FALSE, FALSE, FALSE, FALSE, FALSE, FALSE, FALSE, FALSE),
      \* everything configured, both handlers
      Attrs({}, TRUE, TRUE, TRUE, TRUE, TRUE, TRUE, TRUE, FALSE, TRUE, TRUE),
      \* does not wait for its parents; preprocess only; timeouts retried
      Attrs({}, FALSE, TRUE, FALSE, TRUE, FALSE, FALSE, FALSE, TRUE, FALSE, FALSE),
      \* handler flags without a postprocess command
      Attrs({}, TRUE, FALSE, FALSE, FALSE, FALSE, TRUE, TRUE, TRUE, TRUE, FALSE) }

\* dependencies point to earlier jobs only (the jobs form a DAG)
ParentChoices(j) == SUBSET {i \in Jobs : i < j}

NoJobs == [j \in Jobs |-> NoState]

NoBatches == [s \in MemValues |-> <<>>]

\* no function has been called directly
NoCall ==
    [fn |-> "none", popen |-> FALSE, ev |-> "none", running |-> FALSE,
     transfer |-> FALSE, tmpdir |-> FALSE]

\* _parse_backfill_output has not run
NoBackfill == [parsed |-> FALSE, windows |-> [q \in Queues |-> <<>>]]

\* ------------------------------------------------- initial state
\* The pool has started its workers; every job was created in CREATED by
\* the submission path and nothing is locked.
Init ==
    /\ \E prof \in [Jobs -> Profiles] :
       \E par \in [Jobs -> SUBSET Jobs] :
          /\ \A j \in Jobs : par[j] \in ParentChoices(j)
          /\ attr = [j \in Jobs |-> [prof[j] EXCEPT !.parents = par[j]]]
    /\ db = [j \in Jobs |-> "CREATED"]
    /\ lock = [j \in Jobs |-> NoOwner]
    /\ workdir = [j \in Jobs |-> FALSE]
    /\ cache = [w \in Workers |-> <<>>]
    /\ mem = [w \in Workers |-> NoJobs]
    /\ old = [w \in Workers |-> NoJobs]
    /\ pc = [w \in Workers |-> "loop"]
    /\ idx = [w \in Workers |-> 0]
    /\ EXIT_FLAG = [w \in Workers |-> FALSE]
    /\ exc = [w \in Workers |-> "none"]
    /\ signalled = 0
    /\ joined = FALSE
    /\ flagAt = [w \in Workers |-> "unset"]
    /\ entry = NoJobs
    /\ written = NoBatches
    /\ call = NoCall
    /\ stdout = <<>>
    /\ backfill = NoBackfill

\* ------------------------------------------------- the worker: _main
\* while not EXIT_FLAG (line 134)
loop_continues(w) == ~EXIT_FLAG[w]

\* the loop ends: _main returns to main
LoopExit(w) ==
    /\ pc[w] = "loop"
    /\ ~loop_continues(w)
    /\ pc' = [pc EXCEPT ![w] = "finally"]
    /\ UNCHANGED <<stdout, backfill, call, entry, written, attr, db, lock, workdir, cache, mem, old, idx, EXIT_FLAG,
                   exc, signalled, joined, flagAt>>

\* a refresh_cache that leaves the __old_state marks as they are
refresh_marks_kept(c, m, o) == o

\* for job in job_cache: job.__old_state = job.state (line 99), on the
\* extended cache c with in-memory states m
refresh_marks(c, m, o) ==
    [j \in Jobs |-> IF j \in Range(c) THEN m[j] ELSE NoState]

\* refresh_cache(job_cache, num_threads), taken when the cache is empty or
\* refresh_period has elapsed
RefreshCache(w) ==
    /\ pc[w] = "loop"
    /\ loop_continues(w)
    /\ LET n == num_to_acquire(count_processable(db), NumWorkers, Len(cache[w]))
       IN \E S \in acquire_transitionable(n, db, lock) :
            LET c == cache[w] \o SortedSeq(S)
                m == [j \in Jobs |-> IF j \in S THEN db[j] ELSE mem[w][j]]
            IN /\ lock' = [j \in Jobs |-> IF j \in S THEN w ELSE lock[j]]
               /\ cache' = [cache EXCEPT ![w] = c]
               /\ mem' = [mem EXCEPT ![w] = m]
               /\ old' = [old EXCEPT ![w] = refresh_marks(c, m, old[w])]
    /\ pc' = [pc EXCEPT ![w] = "fast_forward"]
    /\ UNCHANGED <<stdout, backfill, call, entry, written, attr, db, workdir, idx, EXIT_FLAG, exc, signalled, joined, flagAt>>

\* the cache is not empty and refresh_period has not elapsed
SkipRefresh(w) ==
    /\ pc[w] = "loop"
    /\ loop_continues(w)
    /\ cache[w] # <<>>
    /\ pc' = [pc EXCEPT ![w] = "fast_forward"]
    /\ UNCHANGED <<stdout, backfill, call, entry, written, attr, db, lock, workdir, cache, mem, old, idx, EXIT_FLAG,
                   exc, signalled, joined, flagAt>>

\* update_states_from_cache(job_cache) on the in-memory states m: the new
\* persisted states and the new __old_state marks
WriteBack(w, m) ==
    LET b == update_jobs(cache[w], m, old[w])
    IN /\ db' = batch_update_state(b, db)
       /\ old' = [old EXCEPT ![w] =
                    [j \in Jobs |-> IF j \in Range(cache[w]) THEN m[j] ELSE old[w][j]]]

\* fast_forward(job_cache) run by w, its closing update_states_from_cache
\* included
RunFastForward(w) ==
    LET C == Range(cache[w])
        m == fast_forward(mem[w], C, attr, db)
    IN /\ mem' = [mem EXCEPT ![w] = m]
       /\ workdir' = ff_workdir(mem[w], C, attr, db, workdir)
       /\ WriteBack(w, m)

\* line 143 of _main
FastForward(w) ==
    /\ pc[w] = "fast_forward"
    /\ RunFastForward(w)
    /\ pc' = [pc EXCEPT ![w] = "release"]
    /\ UNCHANGED <<stdout, backfill, call, entry, written, attr, lock, cache, idx, EXIT_FLAG, exc, signalled, joined, flagAt>>

\* job_cache = release_jobs(job_cache): the new lock table and the new cache
release_jobs(w) ==
    LET rel == release_list(cache[w], mem[w])
    IN /\ lock' = release(rel, lock)
       /\ cache' = [cache EXCEPT ![w] = kept_cache(cache[w], rel)]
       /\ mem' = [mem EXCEPT ![w] =
                    [j \in Jobs |-> IF j \in Range(kept_cache(cache[w], rel))
                                    THEN mem[w][j] ELSE NoState]]
       /\ old' = [old EXCEPT ![w] =
                    [j \in Jobs |-> IF j \in Range(kept_cache(cache[w], rel))
                                    THEN old[w][j] ELSE NoState]]

\* line 144: release after fast_forward, then the for loop starts
ReleaseAfterFastForward(w) ==
    /\ pc[w] = "release"
    /\ release_jobs(w)
    /\ pc' = [pc EXCEPT ![w] = "for"]
    /\ idx' = [idx EXCEPT ![w] = 1]
    /\ UNCHANGED <<stdout, backfill, call, entry, written, attr, db, workdir, EXIT_FLAG, exc, signalled, joined, flagAt>>


\* for job in job_cache: transition_function = TRANSITIONS[job.state]
\* (line 148); a state that is no key raises KeyError out of _main
Dispatch(w) ==
    /\ pc[w] = "for"
    /\ idx[w] <= Len(cache[w])
    /\ IF mem[w][cache[w][idx[w]]] \in TRANSITIONS
       THEN /\ pc' = [pc EXCEPT ![w] = "transition"]
            /\ exc' = exc
       ELSE /\ pc' = [pc EXCEPT ![w] = "finally"]
            /\ exc' = [exc EXCEPT ![w] = "KeyError"]
    /\ UNCHANGED <<stdout, backfill, call, entry, written, attr, db, lock, workdir, cache, mem, old, idx, EXIT_FLAG,
                   signalled, joined, flagAt>>

\* a for loop without the break on the flag
next_index_no_break(w) == idx[w] + 1

\* the position of the for loop after job idx: `if EXIT_FLAG: break`
next_index(w) ==
    IF EXIT_FLAG[w] THEN Len(cache[w]) + 1 ELSE idx[w] + 1

\* transition_function(job) returns or raises (lines 149-158)
TransitionReturn(w) ==
    /\ pc[w] = "transition"
    /\ \E env \in Env :
         LET j == cache[w][idx[w]]
             r == transition_function(attr[j], mem[w][j], db[j], workdir[j], env)
         IN /\ db' = IF r.store = NoState THEN db ELSE [db EXCEPT ![j] = r.store]
            /\ mem' = [mem EXCEPT ![w][j] = after_try(r)]
            /\ IF r.exc \in {"none", "BalsamTransitionError"}
               THEN /\ pc' = [pc EXCEPT ![w] = "for"]
                    /\ idx' = [idx EXCEPT ![w] = next_index(w)]
                    /\ exc' = exc
               ELSE /\ pc' = [pc EXCEPT ![w] = "finally"]
                    /\ idx' = idx
                    /\ exc' = [exc EXCEPT ![w] = r.exc]
    /\ UNCHANGED <<stdout, backfill, call, entry, written, attr, lock, workdir, cache, old, EXIT_FLAG, signalled,
                   joined, flagAt>>

\* update_states_from_cache(job_cache) after the pass (line 160)
UpdateStates(w) ==
    /\ pc[w] = "for"
    /\ idx[w] > Len(cache[w])
    /\ WriteBack(w, mem[w])
    /\ pc' = [pc EXCEPT ![w] = "release2"]
    /\ idx' = [idx EXCEPT ![w] = 0]
    /\ UNCHANGED <<stdout, backfill, call, entry, written, attr, lock, workdir, cache, mem, EXIT_FLAG, exc, signalled,
                   joined, flagAt>>

\* job_cache = release_jobs(job_cache) after the write-back (line 161)
ReleaseAfterPass(w) ==
    /\ pc[w] = "release2"
    /\ release_jobs(w)
    /\ pc' = [pc EXCEPT ![w] = "loop"]
    /\ UNCHANGED <<stdout, backfill, call, entry, written, attr, db, workdir, idx, EXIT_FLAG, exc, signalled, joined,
                   flagAt>>

\* ------------------------------------------------- the worker: main
\* a main without the release in its finally clause
main_finally_no_release(w, l) == l

\* the lock table after the finally clause of main (lines 123-124)
main_finally(w, l) == release_all_owned(w, l)

\* _main returned or raised: the finally clause runs and the process ends,
\* and with it the worker's cache and locals
MainFinally(w) ==
    /\ pc[w] = "finally"
    /\ lock' = main_finally(w, lock)
    /\ cache' = [cache EXCEPT ![w] = <<>>]
    /\ mem' = [mem EXCEPT ![w] = NoJobs]
    /\ old' = [old EXCEPT ![w] = NoJobs]
    /\ idx' = [idx EXCEPT ![w] = 0]
    /\ flagAt' = [flagAt EXCEPT ![w] = "unset"]
    /\ pc' = [pc EXCEPT ![w] = "done"]
    /\ UNCHANGED <<stdout, backfill, call, entry, written, attr, db, workdir, EXIT_FLAG, exc, signalled, joined>>

\* ------------------------------------------------- TransitionProcessPool
\* handler(signum, stack) in worker w: the flags after it ran
handler(w) == [EXIT_FLAG EXCEPT ![w] = TRUE]

\* terminate(): the next proc.terminate() of `for proc in self.procs`; the
\* worker, if it still runs, takes the signal and its handler sets the flag
Terminate ==
    /\ signalled < NumWorkers
    /\ signalled' = signalled + 1
    /\ LET w == signalled + 1
       IN IF pc[w] = "done"
          THEN UNCHANGED <<stdout, backfill, call, entry, written, EXIT_FLAG, flagAt>>
          ELSE /\ EXIT_FLAG' = handler(w)
               /\ flagAt' = [flagAt EXCEPT ![w] =
                    IF pc[w] = "transition" THEN "transition" ELSE "elsewhere"]
    /\ UNCHANGED <<stdout, backfill, call, entry, written, attr, db, lock, workdir, cache, mem, old, pc, idx, exc,
                   joined>>

\* terminate(): proc.join() has returned for every worker
Join ==
    /\ signalled = NumWorkers
    /\ ~joined
    /\ \A w \in Workers : pc[w] = "done"
    /\ joined' = TRUE
    /\ UNCHANGED <<stdout, backfill, call, entry, written, attr, db, lock, workdir, cache, mem, old, pc, idx,
                   EXIT_FLAG, exc, signalled, flagAt>>

\* ------------------------------------------------- the launcher (external)
\* an unlocked runnable job is started
LauncherStart(j) ==
    /\ lock[j] = NoOwner
    /\ db[j] \in {"PREPROCESSED", "RESTART_READY"}
    /\ db' = [db EXCEPT ![j] = "RUNNING"]
    /\ UNCHANGED <<stdout, backfill, call, entry, written, attr, lock, workdir, cache, mem, old, pc, idx, EXIT_FLAG,
                   exc, signalled, joined, flagAt>>

\* a running job ends
LauncherEnd(j) ==
    /\ db[j] = "RUNNING"
    /\ \E s \in {"RUN_DONE", "RUN_TIMEOUT", "RUN_ERROR"} :
         db' = [db EXCEPT ![j] = s]
    /\ UNCHANGED <<stdout, backfill, call, entry, written, attr, lock, workdir, cache, mem, old, pc, idx, EXIT_FLAG,
                   exc, signalled, joined, flagAt>>

\* ------------------------------------------------- specification
WorkerStep(w) ==
    \/ LoopExit(w)
    \/ RefreshCache(w)
    \/ SkipRefresh(w)
    \/ FastForward(w)
    \/ ReleaseAfterFastForward(w)
    \/ Dispatch(w)
    \/ TransitionReturn(w)
    \/ UpdateStates(w)
    \/ ReleaseAfterPass(w)
    \/ MainFinally(w)

Next ==
    \/ \E w \in Workers : WorkerStep(w)
    \/ Terminate
    \/ Join
    \/ \E j \in Jobs : LauncherStart(j)
    \/ \E j \in Jobs : LauncherEnd(j)

Spec == Init /\ [][Next]_vars

\* the configurations whose transitions run a subprocess
SubprocessProfiles == {p \in Profiles : p.preprocess}

\* the pool started on jobs of one configuration that runs subprocesses
InitSubprocess ==
    /\ Init
    /\ \E p \in SubprocessProfiles :
         \A j \in Jobs : [attr[j] EXCEPT !.parents = {}] = p

\* the workers and the pool take their steps: each worker process is
\* scheduled and every subprocess and transfer call returns; terminate()
\* returns from its joins once the workers have exited
FairSpec ==
    /\ InitSubprocess
    /\ [][Next]_vars
    /\ \A w \in Workers : WF_vars(WorkerStep(w))
    /\ WF_vars(Join)

TypeOK ==
    /\ db \in [Jobs -> States]
    /\ lock \in [Jobs -> Workers \cup {NoOwner}]
    /\ \A w \in Workers : mem[w] \in [Jobs -> MemValues]
    /\ \A w \in Workers : Range(cache[w]) \subseteq Jobs

\* ------------------------------------------------- direct calls
\* fast_forward called twice in succession on a prepared cache, with nothing
\* else running: worker 1 is the caller, job 2 the job under test and job 1
\* a possible parent of it.
Caller == CHOOSE w \in Workers : \A v \in Workers : w <= v

\* configurations of a job that has not run yet: the fields read up to
\* PREPROCESSED vary, the others are unset
PreRunAttrs ==
    {Attrs(par, wait, inp, url_in, pre, FALSE, FALSE, FALSE, FALSE, FALSE, FALSE) :
        par \in {{}, {Caller}}, wait \in BOOLEAN, inp \in BOOLEAN,
        url_in \in BOOLEAN, pre \in BOOLEAN}

\* configurations of a job that has run: the fields read after the run vary
PostRunAttrs ==
    {Attrs({}, TRUE, FALSE, FALSE, FALSE, post, err_h, to_h, retry, url_out, out) :
        post \in BOOLEAN, err_h \in BOOLEAN, to_h \in BOOLEAN,
        retry \in BOOLEAN, url_out \in BOOLEAN, out \in BOOLEAN}

\* the job under test: its configuration and its state on entry
CallInputs ==
    ([a : PreRunAttrs, s : {"CREATED", "AWAITING_PARENTS", "READY", "STAGED_IN"}]
     \cup [a : PostRunAttrs, s : {"RUN_DONE", "RUN_TIMEOUT", "RUN_ERROR", "POSTPROCESSED"}])

\* the caches called on: the job under test alone or with the other job
CallCaches == {<<Caller + 1>>, <<Caller, Caller + 1>>, <<Caller + 1, Caller>>}

InitCall ==
    /\ \E inp \in CallInputs, prof \in Profiles, ps \in States, c \in CallCaches :
         /\ Caller \in Range(c) => ps \in PROCESSABLE_STATES
         /\ attr = [j \in Jobs |-> IF j = Caller + 1 THEN inp.a ELSE prof]
         /\ db = [j \in Jobs |-> IF j = Caller + 1 THEN inp.s
                                 ELSE IF j = Caller THEN ps ELSE "CREATED"]
         /\ cache = [w \in Workers |-> IF w = Caller THEN c ELSE <<>>]
    /\ lock = [j \in Jobs |-> IF j \in Range(cache[Caller]) THEN Caller ELSE NoOwner]
    /\ mem = [w \in Workers |->
                [j \in Jobs |-> IF j \in Range(cache[w]) THEN db[j] ELSE NoState]]
    /\ old = mem
    /\ workdir = [j \in Jobs |-> FALSE]
    /\ pc = [w \in Workers |-> IF w = Caller THEN "call1" ELSE "done"]
    /\ idx = [w \in Workers |-> 0]
    /\ EXIT_FLAG = [w \in Workers |-> FALSE]
    /\ exc = [w \in Workers |-> "none"]
    /\ signalled = 0
    /\ joined = FALSE
    /\ flagAt = [w \in Workers |-> "unset"]
    /\ entry = NoJobs
    /\ written = NoBatches
    /\ call = NoCall
    /\ stdout = <<>>
    /\ backfill = NoBackfill

\* fast_forward(job_cache), called directly
CallFastForward(w) ==
    /\ pc[w] \in {"call1", "call2"}
    /\ RunFastForward(w)
    /\ entry' = mem[w]
    /\ written' = update_jobs(cache[w], fast_forward(mem[w], Range(cache[w]), attr, db),
                              old[w])
    /\ pc' = [pc EXCEPT ![w] = IF pc[w] = "call1" THEN "call2" ELSE "called"]
    /\ UNCHANGED <<stdout, backfill, call, attr, lock, cache, idx, EXIT_FLAG, exc, signalled,
                   joined, flagAt>>

NextCall == \E w \in Workers : CallFastForward(w)

CallSpec == InitCall /\ [][NextCall]_vars


\* ------------------------------------------------- direct calls of the
\* transition functions
\* One function of the module is called on a locked job in the state it is
\* dispatched on, with nothing else running: TRANSITIONS[job.state](job), or
\* postprocess with one of its handling flags.
TransCalls == {"TRANSITIONS", "postprocess_error", "postprocess_timeout"}

\* the job under test: its configuration and its state on entry
TransInputs ==
    ([a : PreRunAttrs, s : {"READY", "STAGED_IN"}]
     \cup [a : PostRunAttrs, s : {"RUN_DONE", "RUN_TIMEOUT", "RUN_ERROR", "POSTPROCESSED"}])

\* the call fn(job) on a job in state s
direct_call(fn, a, s, dbs, wd, env) ==
    CASE fn = "TRANSITIONS" -> transition_function(a, s, dbs, wd, env)
      [] fn = "postprocess_error" -> postprocess(a, s, dbs, "error", env)
      [] fn = "postprocess_timeout" -> postprocess(a, s, dbs, "timeout", env)

InitTrans ==
    /\ \E inp \in TransInputs, prof \in Profiles, wd \in BOOLEAN :
         /\ attr = [j \in Jobs |-> IF j = Caller + 1 THEN inp.a ELSE prof]
         /\ db = [j \in Jobs |-> IF j = Caller + 1 THEN inp.s ELSE "JOB_FINISHED"]
         /\ workdir = [j \in Jobs |-> IF j = Caller + 1 THEN wd ELSE TRUE]
    /\ cache = [w \in Workers |-> IF w = Caller THEN <<Caller + 1>> ELSE <<>>]
    /\ lock = [j \in Jobs |-> IF j = Caller + 1 THEN Caller ELSE NoOwner]
    /\ mem = [w \in Workers |->
                [j \in Jobs |-> IF j \in Range(cache[w]) THEN db[j] ELSE NoState]]
    /\ old = mem
    /\ pc = [w \in Workers |-> IF w = Caller THEN "tcall" ELSE "done"]
    /\ idx = [w \in Workers |-> 0]
    /\ EXIT_FLAG = [w \in Workers |-> FALSE]
    /\ exc = [w \in Workers |-> "none"]
    /\ signalled = 0
    /\ joined = FALSE
    /\ flagAt = [w \in Workers |-> "unset"]
    /\ entry = NoJobs
    /\ written = NoBatches
    /\ call = NoCall
    /\ stdout = <<>>
    /\ backfill = NoBackfill

\* the call returns or raises to its caller: job.state, the state stored by
\* the subprocess and the exception are as the function left them
CallTransition(w) ==
    /\ pc[w] = "tcall"
    /\ \E fn \in TransCalls, env \in Env :
         LET j == cache[w][1]
             r == direct_call(fn, attr[j], mem[w][j], db[j], workdir[j], env)
         IN /\ fn = "postprocess_error" => mem[w][j] = "RUN_ERROR"
            /\ fn = "postprocess_timeout" => mem[w][j] = "RUN_TIMEOUT"
            /\ db' = IF r.store = NoState THEN db ELSE [db EXCEPT ![j] = r.store]
            /\ mem' = [mem EXCEPT ![w][j] = r.state]
            /\ exc' = [exc EXCEPT ![w] = r.exc]
            /\ call' = [fn |-> fn, popen |-> r.popen, ev |-> env.ev,
                         running |-> r.running, transfer |-> r.transfer,
                         tmpdir |-> r.tmpdir]
    /\ entry' = mem[w]
    /\ pc' = [pc EXCEPT ![w] = "tcalled"]
    /\ UNCHANGED <<stdout, backfill, written, attr, lock, workdir, cache, old, idx, EXIT_FLAG,
                   signalled, joined, flagAt>>

NextTrans == \E w \in Workers : CallTransition(w)

TransSpec == InitTrans /\ [][NextTrans]_vars

\* ------------------------------------------------- CobaltScheduler: backfill
\* (balsam/platform/scheduler/cobalt_sched.py)
\* CobaltScheduler.node_states
node_states ==
    [s \in {"busy", "idle", "cleanup-pending", "down", "allocated"} |->
        IF s = "idle" THEN "idle" ELSE "busy"]

\* _node_state_map(nodelist_state)
node_state_map(st) ==
    IF st \in DOMAIN node_states THEN node_states[st] ELSE "unknown"

\* parse_cobalt_time_minutes(t_str); t.ok: t_str is three integers H:M:S
parse_cobalt_time_minutes(t) ==
    IF ~t.ok THEN 0 ELSE t.H * 60 + t.M + PyRound(t.S, 60)

\* _parse_nodelist_line(line) for a line it does not raise on: the fields
\* the backfill computation reads
parse_nodelist_line(line) ==
    [queues |-> line.queues,
     state |-> node_state_map(line.state),
     backfill_time_min |-> parse_cobalt_time_minutes(line.backfill)]

\* queue_bf_times[queue] after the first loop of _nodelist_to_backfill: one
\* bf_time for every listing of the queue in an entry, in list order
RECURSIVE queue_bf_times(_, _)
queue_bf_times(nodelist, queue) ==
    IF nodelist = <<>> THEN <<>>
    ELSE LET e == Head(nodelist)
             listed == SelectSeq(e.queues, LAMBDA x : x = queue)
         IN [i \in 1..Len(listed) |-> e.backfill_time_min]
                \o queue_bf_times(Tail(nodelist), queue)

\* Counter(bf_times): mapping {bf_time: num_nodes}
Counter(bf_times) ==
    [t \in Range(bf_times) |->
        Cardinality({i \in 1..Len(bf_times) : bf_times[i] = t})]

\* the items (bf_time, num_nodes) of counter for the times in T, sorted by
\* bf_time, downwards if reverse
RECURSIVE sorted_from(_, _, _)
sorted_from(counter, T, reverse) ==
    IF T = {} THEN <<>>
    ELSE LET t == CHOOSE x \in T :
                     \A y \in T : IF reverse THEN x >= y ELSE x <= y
         IN <<[bf_time |-> t, num_nodes |-> counter[t]]>>
                \o sorted_from(counter, T \ {t}, reverse)

\* sorted(bf_counter.items()): shorter times first
sorted_items_forward(counter) == sorted_from(counter, DOMAIN counter, FALSE)

\* sorted(bf_counter.items(), reverse=True): longer times first
sorted_items(counter) == sorted_from(counter, DOMAIN counter, TRUE)

\* running_total after the first i items of bf_counter
RECURSIVE running_total(_, _)
running_total(bf_counter, i) ==
    IF i = 0 THEN 0
    ELSE running_total(bf_counter, i - 1) + bf_counter[i].num_nodes

\* _nodelist_to_backfill(nodelist): for each queue its list of windows (the
\* empty list for a queue the defaultdict has no entry for)
nodelist_to_backfill(nodelist) ==
    [queue \in Queues |->
        LET bf_counter == sorted_items(Counter(queue_bf_times(nodelist, queue)))
        IN [i \in 1..Len(bf_counter) |->
              [num_nodes |-> running_total(bf_counter, i),
               backfill_time_min |-> bf_counter[i].bf_time]]]

\* _parse_backfill_output(stdout), out being stdout.split("\n"): the lines
\* after the two header lines; a line _parse_nodelist_line raises ValueError
\* on is skipped
parse_backfill_output(out) ==
    LET node_lines == SubSeq(out, 3, Len(out))
        parsable == SelectSeq(node_lines, LAMBDA l : l.parses)
        line_dicts == [i \in 1..Len(parsable) |-> parse_nodelist_line(parsable[i])]
        nodelist == SelectSeq(line_dicts,
                       LAMBDA d : d.backfill_time_min > 0 /\ d.state = "idle")
    IN nodelist_to_backfill(nodelist)

\* the Backfill column: not a time, 0:00:20, 0:01:00, 0:01:40, 0:03:00
TimeFields ==
    { [ok |-> FALSE, H |-> 0, M |-> 0, S |-> 0],
      [ok |-> TRUE, H |-> 0, M |-> 0, S |-> 20],
      [ok |-> TRUE, H |-> 0, M |-> 1, S |-> 0],
      [ok |-> TRUE, H |-> 0, M |-> 1, S |-> 40],
      [ok |-> TRUE, H |-> 0, M |-> 3, S |-> 0] }

\* the Queues column split at ":": the queues of a node, each named once
QueueLists == {SortedSeq(S) : S \in (SUBSET Queues) \ {{}}}

\* a line that is not a node line (wrong number of columns, or a Node_id
\* that is not an integer): a header line, an empty line
NotANodeLine ==
    [parses |-> FALSE, queues |-> <<1>>, state |-> "Status",
     backfill |-> [ok |-> FALSE, H |-> 0, M |-> 0, S |-> 0]]

\* the lines after the header
NodeLines ==
    {NotANodeLine}
      \cup [parses : {TRUE}, queues : QueueLists,
            state : {"idle", "down", "offline"}, backfill : TimeFields]

\* the nodelist command has printed its two header lines and up to MaxNodes
\* further lines; nothing else runs
InitBackfill ==
    /\ \E n \in 0..MaxNodes : \E lines \in [1..n -> NodeLines] :
          stdout = <<NotANodeLine, NotANodeLine>> \o lines
    /\ backfill = NoBackfill
    /\ attr = [j \in Jobs |->
                 Attrs({}, TRUE, FALSE, FALSE, FALSE, FALSE, FALSE, FALSE, FALSE,
                       FALSE, FALSE)]
    /\ db = [j \in Jobs |-> "CREATED"]
    /\ lock = [j \in Jobs |-> NoOwner]
    /\ workdir = [j \in Jobs |-> FALSE]
    /\ cache = [w \in Workers |-> <<>>]
    /\ mem = [w \in Workers |-> NoJobs]
    /\ old = [w \in Workers |-> NoJobs]
    /\ pc = [w \in Workers |-> "done"]
    /\ idx = [w \in Workers |-> 0]
    /\ EXIT_FLAG = [w \in Workers |-> FALSE]
    /\ exc = [w \in Workers |-> "none"]
    /\ signalled = 0
    /\ joined = FALSE
    /\ flagAt = [w \in Workers |-> "unset"]
    /\ entry = NoJobs
    /\ written = NoBatches
    /\ call = NoCall

\* windows = self._parse_backfill_output(stdout)
ParseBackfill ==
    /\ ~backfill.parsed
    /\ backfill' = [parsed |-> TRUE, windows |-> parse_backfill_output(stdout)]
    /\ UNCHANGED <<stdout, call, entry, written, attr, db, lock, workdir, cache,
                   mem, old, pc, idx, EXIT_FLAG, exc, signalled, joined, flagAt>>

NextBackfill == ParseBackfill

BackfillSpec == InitBackfill /\ [][NextBackfill]_vars


\* ================================================= claims
\* C1: at most one owner. In every reachable state of the pool every job in a
\* worker's cache is locked by that worker in the job store, so no job id
\* is in two workers' caches, whatever the interleaving of refresh_cache,
\* the two release_jobs steps and the release-all on exit.
C1_AtMostOneOwner ==
    /\ \A w \in Workers : \A j \in Range(cache[w]) : lock[j] = w
    /\ \A w1, w2 \in Workers :
         w1 # w2 => Range(cache[w1]) \cap Range(cache[w2]) = {}

\* two workers hold jobs at the same time, each in the middle of its pass
C1_Witness ==
    \E w1, w2 \in Workers :
        /\ w1 # w2
        /\ cache[w1] # <<>> /\ pc[w1] = "transition"
        /\ cache[w2] # <<>> /\ pc[w2] = "transition"

\* C2: isolated failure. A job that a transition error turned to FAILED in a
\* worker's pass keeps its lock until the write-back of that pass has
\* persisted FAILED: whenever a worker gives up the lock of a job whose
\* in-memory state is FAILED, the persisted state is FAILED.
C2_FailedPersistedBeforeRelease ==
    [][\A w \in Workers : \A j \in Jobs :
          (lock[j] = w /\ mem[w][j] = "FAILED" /\ lock'[j] # w)
              => db[j] = "FAILED"]_vars

\* C3: no lock leak on exit. A worker whose main has ended, by the stop flag
\* or by an exception out of the loop body, holds no lock in the job store.
C3_NoLockLeak ==
    \A w \in Workers : pc[w] = "done" => \A j \in Jobs : lock[j] # w

\* one worker has ended on the stop flag and another on an exception
C3_Witness ==
    \E w1, w2 \in Workers :
        /\ pc[w1] = "done" /\ exc[w1] = "none" /\ EXIT_FLAG[w1]
        /\ pc[w2] = "done" /\ exc[w2] # "none"

\* a job has left CREATED and AWAITING_PARENTS, in the store or in a cache
PastParents(j) ==
    \/ db[j] \notin {"CREATED", "AWAITING_PARENTS"}
    \/ \E w \in Workers :
         mem[w][j] \notin {"CREATED", "AWAITING_PARENTS", NoState}

\* C4 (as amended): a job that has parents and waits for them
\* (wait_for_parents) is READY or further only when every parent is
\* persisted in JOB_FINISHED.
C4_ReadyOnlyAfterParents ==
    \A j \in Jobs :
        (attr[j].parents # {} /\ attr[j].wait_for_parents /\ PastParents(j))
            => \A p \in attr[j].parents : db[p] = "JOB_FINISHED"

\* a waiting job has been made READY, and more, after its parent finished
C4_Witness ==
    \E j \in Jobs :
        /\ attr[j].parents # {} /\ attr[j].wait_for_parents
        /\ db[j] = "PREPROCESSED"

\* C4 as claimed: every job that has parents is READY or further only when
\* every parent is persisted in JOB_FINISHED.
C4_Original ==
    \A j \in Jobs :
        (attr[j].parents # {} /\ PastParents(j))
            => \A p \in attr[j].parents : db[p] = "JOB_FINISHED"

\* C5: fast_forward is idempotent. After two calls in succession on the
\* same cache, nothing else changing a state, the second call has changed
\* no job's in-memory state and has written nothing to the job store.
C5_FastForwardIdempotent ==
    pc[Caller] = "called" => (mem[Caller] = entry /\ written = NoBatches)

\* the stop flag of worker w was set while a transition was in flight
MidPass(w) == flagAt[w] = "transition"

\* C6: mid-pass shutdown. Once the stop flag was set during job k's
\* transition, that transition completes (it returns, or fails the job),
\* the pass starts no further transition, and the worker gives up a lock
\* only when the job's persisted state is its in-memory state.
C6_MidPassShutdown ==
    [][\A w \in Workers :
          MidPass(w) =>
            /\ pc[w] = "transition" => pc'[w] \in {"transition", "for"}
            /\ pc'[w] = "transition" => pc[w] = "transition"
            /\ \A j \in Jobs :
                 (lock[j] = w /\ lock'[j] # w) => db[j] = mem[w][j]]_vars

LegalEdges ==
    {<<"CREATED", "READY">>, <<"CREATED", "AWAITING_PARENTS">>,
     <<"AWAITING_PARENTS", "READY">>, <<"READY", "STAGED_IN">>,
     <<"STAGED_IN", "PREPROCESSED">>, <<"RUN_DONE", "POSTPROCESSED">>,
     <<"RUN_TIMEOUT", "RESTART_READY">>, <<"RUN_TIMEOUT", "FAILED">>,
     <<"RUN_ERROR", "FAILED">>, <<"POSTPROCESSED", "JOB_FINISHED">>}

\* the states stage_in, preprocess, plain postprocess and stage_out are
\* dispatched on
PlainTransitionStates == {"READY", "STAGED_IN", "RUN_DONE", "POSTPROCESSED"}

\* C8: terminal states and legal edges. Every assignment to job.state made
\* by a pass of fast_forward is a legal edge; a change made by stage_in,
\* preprocess, plain postprocess or stage_out is a legal edge or, on a
\* transition error, ends in FAILED; persisted and in-memory states are
\* members of the state enumeration; a job in JOB_FINISHED or FAILED is
\* not changed again.
C8_LegalEdges ==
    [][/\ \A w \in Workers :
            (pc[w] = "fast_forward" /\ pc'[w] = "release")
                => ff_edges(mem[w], Range(cache[w]), attr, db) \subseteq LegalEdges
       /\ \A w \in Workers : \A j \in Jobs :
            (/\ pc[w] = "transition"
             /\ mem[w][j] \in PlainTransitionStates
             /\ mem'[w][j] # mem[w][j])
                => \/ <<mem[w][j], mem'[w][j]>> \in LegalEdges
                   \/ mem'[w][j] = "FAILED"
       /\ \A j \in Jobs : db'[j] \in States
       /\ \A w \in Workers : \A j \in Jobs : mem'[w][j] \in States \cup {NoState}
       /\ \A j \in Jobs :
            db[j] \in {"JOB_FINISHED", "FAILED"} => db'[j] = db[j]
       /\ \A w \in Workers : \A j \in Jobs :
            mem[w][j] \in {"JOB_FINISHED", "FAILED"}
                => mem'[w][j] \in {mem[w][j], NoState}]_vars

\* jobs have been failed by a transition error, finished by stage_out and
\* carried over several edges by one fast_forward
C8_Witness ==
    /\ \E j \in Jobs : db[j] = "FAILED"
    /\ \E j \in Jobs : db[j] = "JOB_FINISHED" /\ attr[j].stage_out_url
                       /\ attr[j].stage_out_files

\* the states in which cached job j was written by the last call
WrittenAs(j) == {s \in MemValues : j \in Range(written[s])}

\* C9: fast_forward chains its skips in one call. A READY job with no
\* preprocess command, no input files, no stage-in URL and no parents is
\* PREPROCESSED after one call, and a RUN_DONE job with no postprocess
\* command and no stage-out URL is JOB_FINISHED; the job is written once,
\* in that final state.
C9_ChainsSkips ==
    pc[Caller] = "call2" =>
      \A j \in Range(cache[Caller]) :
        /\ (/\ entry[j] = "READY"
            /\ ~attr[j].preprocess /\ ~attr[j].input_files
            /\ ~attr[j].stage_in_url /\ attr[j].parents = {})
              => /\ mem[Caller][j] = "PREPROCESSED"
                 /\ db[j] = "PREPROCESSED"
                 /\ WrittenAs(j) = {"PREPROCESSED"}
        /\ (/\ entry[j] = "RUN_DONE"
            /\ ~attr[j].postprocess /\ ~attr[j].stage_out_url)
              => /\ mem[Caller][j] = "JOB_FINISHED"
                 /\ db[j] = "JOB_FINISHED"
                 /\ WrittenAs(j) = {"JOB_FINISHED"}

\* one call has taken a READY job to PREPROCESSED and a RUN_DONE job to
\* JOB_FINISHED
C9_Witness ==
    /\ pc[Caller] = "call2"
    /\ \E j, k \in Range(cache[Caller]) :
         /\ entry[j] = "READY" /\ db[j] = "PREPROCESSED"
         /\ ~attr[j].preprocess /\ ~attr[j].input_files
         /\ ~attr[j].stage_in_url /\ attr[j].parents = {}
         /\ entry[k] = "RUN_DONE" /\ db[k] = "JOB_FINISHED"
         /\ ~attr[k].postprocess /\ ~attr[k].stage_out_url

\* C10: timeout resolution. After one call a job that entered in
\* RUN_TIMEOUT is RESTART_READY if auto_timeout_retry is set and there is no
\* timeout handler, FAILED if auto_timeout_retry is not set and not both a
\* postprocess command and the timeout-handler flag are, and still
\* RUN_TIMEOUT otherwise; the two rules never both apply.
C10_TimeoutResolution ==
    pc[Caller] = "call2" =>
      \A j \in Range(cache[Caller]) :
        entry[j] = "RUN_TIMEOUT" =>
          LET retry == attr[j].auto_timeout_retry /\ ~attr[j].post_timeout_handler
              fail == /\ ~attr[j].auto_timeout_retry
                      /\ ~(attr[j].postprocess /\ attr[j].post_timeout_handler)
          IN /\ ~(retry /\ fail)
             /\ retry => mem[Caller][j] = "RESTART_READY" /\ db[j] = "RESTART_READY"
             /\ fail => mem[Caller][j] = "FAILED" /\ db[j] = "FAILED"
             /\ (~retry /\ ~fail) =>
                    mem[Caller][j] = "RUN_TIMEOUT" /\ db[j] = "RUN_TIMEOUT"

\* one call has resolved a timed-out job with a timeout handler and
\* auto_timeout_retry by leaving it in RUN_TIMEOUT
C10_Witness ==
    /\ pc[Caller] = "call2"
    /\ \E j \in Range(cache[Caller]) :
         /\ entry[j] = "RUN_TIMEOUT" /\ mem[Caller][j] = "RUN_TIMEOUT"
         /\ attr[j].auto_timeout_retry /\ attr[j].post_timeout_handler

\* the job a direct call of a transition function is made on
Called == cache[Caller][1]

\* C11: postprocess without a postprocess command. In error_handling mode
\* it raises a transition error, in timeout_handling mode it sets the state
\* to RESTART_READY, in neither mode it sets the state to the enumeration
\* value POSTPROCESSED; it runs no subprocess.
C11_PostprocessNoCommand ==
    (/\ pc[Caller] = "tcalled"
     /\ ~attr[Called].postprocess
     /\ entry[Called] \in {"RUN_DONE", "RUN_ERROR", "RUN_TIMEOUT"}
     /\ entry[Called] = "RUN_ERROR" => call.fn = "postprocess_error"
     /\ entry[Called] = "RUN_TIMEOUT" => call.fn = "postprocess_timeout")
        => /\ ~call.popen
           /\ call.fn = "postprocess_error" => exc[Caller] = "BalsamTransitionError"
           /\ call.fn = "postprocess_timeout" =>
                  exc[Caller] = "none" /\ mem[Caller][Called] = "RESTART_READY"
           /\ call.fn = "TRANSITIONS" =>
                  exc[Caller] = "none" /\ mem[Caller][Called] = "POSTPROCESSED"

\* C12: dispatch is total on the post-release cache. When the transition
\* pass starts, after fast_forward and release_jobs, every cached job is in
\* a state that is a key of TRANSITIONS, and the lookup never fails.
C12_DispatchTotal ==
    \A w \in Workers :
        /\ (pc[w] = "for" /\ idx[w] = 1)
              => \A j \in Range(cache[w]) : mem[w][j] \in TRANSITIONS
        /\ exc[w] # "KeyError"

\* ceil(n / t) for n >= 0 and t >= 1
Ceil(n, t) == (n + t - 1) \div t

\* C13: fair share. At a refresh the worker's target is
\* ceil(total_transitionable / worker_count) and it asks for
\* max(0, target - len(cache)) jobs, so a refresh adds at most that many
\* jobs to the cache.
C13_FairShareCeil ==
    [][\A w \in Workers :
          (pc[w] = "loop" /\ pc'[w] = "fast_forward")
              => Len(cache'[w]) - Len(cache[w])
                   <= Max(0, Ceil(count_processable(db), NumWorkers)
                               - Len(cache[w]))]_vars

\* C14: the stop flag is checked before each transition. A worker whose
\* stop flag is set starts no transition function; only a transition in
\* flight when the flag was set finishes.
C14_NoTransitionAfterFlag ==
    [][\A w \in Workers :
          (EXIT_FLAG[w] /\ pc[w] # "transition") => pc'[w] # "transition"]_vars

\* the number of times job j is in the batch b
TimesIn(b, j) == Cardinality({i \in 1..Len(b) : b[i] = j})

\* C15: bulk write-back. update_states_from_cache writes exactly the cached
\* jobs whose job.state differs from __old_state, each once, in the batch
\* of its current state; a job whose state did not change is in no batch;
\* afterwards __old_state, job.state and the persisted state of every
\* cached job are equal.
C15_BulkWriteBack ==
    [][\A w \in Workers :
          (pc[w] \in {"call1", "call2"} /\ pc'[w] # pc[w]) =>
            \A j \in Jobs :
              LET changed == j \in Range(cache[w]) /\ mem'[w][j] # old[w][j]
              IN /\ changed => /\ WrittenAs(j)' = {mem'[w][j]}
                               /\ TimesIn(written'[mem'[w][j]], j) = 1
                 /\ ~changed => WrittenAs(j)' = {}
                 /\ j \in Range(cache[w]) =>
                        /\ old'[w][j] = mem'[w][j]
                        /\ db'[j] = mem'[w][j]]_vars

\* a write-back has written one cached job and left another, unchanged one
\* out of every batch
C15_Witness ==
    /\ pc[Caller] = "call2"
    /\ \E j, k \in Range(cache[Caller]) :
         /\ mem[Caller][j] # entry[j] /\ WrittenAs(j) = {mem[Caller][j]}
         /\ mem[Caller][k] = entry[k] /\ WrittenAs(k) = {}

\* C16: fast_forward before transitions. The job a worker invokes a
\* transition function on satisfies no skip rule: preprocess is invoked only
\* with a preprocess command, plain postprocess only with a postprocess
\* command, stage_in only with a stage-in URL or with parents and input
\* patterns, stage_out only with a stage-out URL and patterns.
C16_NoTransitionOnSkippable ==
    \A w \in Workers :
        pc[w] = "transition" =>
          LET j == cache[w][idx[w]]
              a == attr[j]
              s == mem[w][j]
          IN /\ s = "STAGED_IN" => a.preprocess
             /\ s = "RUN_DONE" => a.postprocess
             /\ s = "READY" => (a.stage_in_url \/ (a.parents # {} /\ a.input_files))
             /\ s = "POSTPROCESSED" => (a.stage_out_url /\ a.stage_out_files)

\* a worker is in stage_out, and its cache holds a job fast_forward took
\* through its skips
C16_Witness ==
    \E w \in Workers :
        /\ pc[w] = "transition"
        /\ mem[w][cache[w][idx[w]]] = "POSTPROCESSED"
        /\ \E v \in Workers, k \in Jobs : v # w /\ mem[v][k] = "STAGED_IN"

\* C17: the handler safety nets. A job that fast_forward leaves in
\* RUN_TIMEOUT has the timeout-handler flag set, and a job it leaves in
\* RUN_ERROR has the error-handler flag and a postprocess command.
C17_SafetyNetsUnreachable ==
    pc[Caller] \in {"call2", "called"} =>
      \A j \in Range(cache[Caller]) :
        /\ mem[Caller][j] = "RUN_TIMEOUT" => attr[j].post_timeout_handler
        /\ mem[Caller][j] = "RUN_ERROR" =>
               (attr[j].post_error_handler /\ attr[j].postprocess)

\* a timed-out job and a failed job have both survived one fast_forward
C17_Witness ==
    /\ pc[Caller] = "call2"
    /\ \E j, k \in Range(cache[Caller]) :
         /\ entry[j] = "RUN_TIMEOUT" /\ mem[Caller][j] = "RUN_TIMEOUT"
         /\ entry[k] = "RUN_ERROR" /\ mem[Caller][k] = "RUN_ERROR"

\* the states the handling transitions are dispatched on
HandledStates == {"RUN_ERROR", "RUN_TIMEOUT"}

\* C18: handler post-condition. When a worker's transition on a job in
\* RUN_ERROR or RUN_TIMEOUT ends, the job is no longer in that state; where
\* a postprocess command is configured the job is FAILED or in the state
\* re-read from the job store, which is the state the handler stored.
C18_HandlerPostCondition ==
    [][\A w \in Workers :
          (pc[w] = "transition" /\ pc'[w] # "transition"
           /\ mem[w][cache[w][idx[w]]] \in HandledStates) =>
            LET j == cache[w][idx[w]]
            IN /\ mem'[w][j] # mem[w][j]
               /\ attr[j].postprocess => mem'[w][j] \in {"FAILED", db'[j]}]_vars

\* C19: stage-in skip and directory. fast_forward moves a READY job to
\* STAGED_IN exactly when it has no stage-in URL and (no parents or no input
\* patterns); stage_in called on a READY job leaves the working directory
\* in existence and raises nothing but a transition error.
C19_StageInDirectory ==
    /\ \A a \in PreRunAttrs :
         ff_stage_in(a, "READY") = "STAGED_IN"
            <=> (~a.stage_in_url /\ (a.parents = {} \/ ~a.input_files))
    /\ (pc[Caller] = "tcalled" /\ call.fn = "TRANSITIONS"
        /\ entry[Called] = "READY")
          => /\ workdir[Called]
             /\ exc[Caller] \in {"none", "BalsamTransitionError"}

\* C20: an uncaught exception ends only that worker. Once an exception has
\* escaped _main the worker runs no further loop step; its finally clause
\* unlocks every job it holds, which makes the ones in a processable state
\* acquirable; the step changes no other worker's position, cache or flag.
C20_ExceptionEndsOnlyWorker ==
    [][\A w \in Workers :
          /\ exc'[w] # "none" => pc'[w] \in {"finally", "done"}
          /\ pc[w] \in {"finally", "done"} => pc'[w] \in {"finally", "done"}
          /\ (pc[w] = "finally" /\ pc'[w] = "done") =>
                \A j \in Jobs :
                    lock[j] = w =>
                      /\ lock'[j] = NoOwner
                      /\ db'[j] \in PROCESSABLE_STATES => j \in Acquirable(db', lock')
          /\ ((exc[w] = "none" /\ exc'[w] # "none")
              \/ (exc[w] # "none" /\ pc[w] = "finally" /\ pc'[w] = "done")) =>
                \A v \in Workers \ {w} :
                    /\ pc'[v] = pc[v] /\ cache'[v] = cache[v]
                    /\ EXIT_FLAG'[v] = EXIT_FLAG[v] /\ exc'[v] = exc[v]]_vars

\* a worker has ended on an exception, and another, not stopped, is in a
\* transition holding every job, the ones the first held included
C20_Witness ==
    \E w, v \in Workers :
        /\ w # v
        /\ pc[w] = "done" /\ exc[w] = "UnboundLocalError"
        /\ pc[v] = "transition" /\ ~EXIT_FLAG[v]
        /\ Range(cache[v]) = Jobs

\* preprocess was called through the table on a STAGED_IN job that has a
\* preprocess command and a working directory
PreprocessCalled ==
    /\ pc[Caller] = "tcalled" /\ call.fn = "TRANSITIONS"
    /\ entry[Called] = "STAGED_IN"
    /\ attr[Called].preprocess /\ workdir[Called]

\* C21: preprocess outcomes. A missing executable, a subprocess that does
\* not exit within the timeout (it is killed, no subprocess is left running)
\* and a non-zero exit code each raise a transition error and leave job.state
\* as it was; only a subprocess that exits with code zero sets PREPROCESSED.
C21_PreprocessOutcomes ==
    PreprocessCalled =>
        /\ call.ev \in {"missing_exe", "timeout", "nonzero"} =>
              /\ exc[Caller] = "BalsamTransitionError"
              /\ mem[Caller][Called] = "STAGED_IN"
        /\ call.ev = "missing_exe" => ~call.popen
        /\ call.ev = "timeout" => call.popen
        /\ ~call.running
        /\ mem[Caller][Called] = "PREPROCESSED" =>
              /\ call.popen /\ exc[Caller] = "none"
              /\ call.ev \notin {"missing_exe", "spawn_fail", "timeout", "nonzero"}
        /\ mem[Caller][Called] \in {"STAGED_IN", "PREPROCESSED"}

\* the preprocess subprocess ran into the timeout
C21_Witness ==
    PreprocessCalled /\ call.ev = "timeout" /\ call.popen

\* stage_out was called through the table on a POSTPROCESSED job
StageOutCalled ==
    /\ pc[Caller] = "tcalled" /\ call.fn = "TRANSITIONS"
    /\ entry[Called] = "POSTPROCESSED"

\* the job has a stage-out URL and some file matches its patterns
StageOutMatches ==
    /\ attr[Called].stage_out_url /\ attr[Called].stage_out_files
    /\ call.ev # "no_match"

\* C22: stage_out outcomes. Without a stage-out URL, or with no file
\* matching the patterns, the job becomes JOB_FINISHED and the TransferClient
\* is not called; with matches, a failure of the copy or of the transfer
\* raises a transition error and leaves job.state as it was, success sets
\* JOB_FINISHED; on every exit path the temporary staging directory no
\* longer exists afterwards.
C22_StageOutOutcomes ==
    StageOutCalled =>
        /\ ~StageOutMatches =>
              /\ mem[Caller][Called] = "JOB_FINISHED" /\ exc[Caller] = "none"
              /\ ~call.transfer
        /\ (StageOutMatches /\ call.ev \in {"copy_fail", "transfer_fail"}) =>
              /\ exc[Caller] = "BalsamTransitionError"
              /\ mem[Caller][Called] = "POSTPROCESSED"
        /\ (StageOutMatches /\ call.ev \notin {"copy_fail", "transfer_fail"}) =>
              /\ mem[Caller][Called] = "JOB_FINISHED" /\ exc[Caller] = "none"
              /\ call.transfer
        /\ ~call.tmpdir

\* the transfer of the staged files failed
C22_Witness ==
    StageOutCalled /\ StageOutMatches /\ call.ev = "transfer_fail" /\ call.transfer

\* C23: no lost update on release. Whenever a worker's lock on a job is
\* released, in either release_jobs step or in the release-all of the
\* finally clause, the job's persisted state equals the worker's in-memory
\* state of it: no state change is still waiting to be written.
C23_NoLostUpdateOnRelease ==
    [][\A w \in Workers : \A j \in Jobs :
          (lock[j] = w /\ lock'[j] # w) => db'[j] = mem[w][j]]_vars

\* every parent of job j is persisted as JOB_FINISHED
ParentsFinished(j) == \A p \in attr[j].parents : db[p] = "JOB_FINISHED"

\* a worker holds job j, which waits for its parents, still in CREATED
AcquiredWaiting(j) ==
    /\ attr[j].parents # {} /\ attr[j].wait_for_parents
    /\ \E w \in Workers : j \in Range(cache[w]) /\ mem[w][j] = "CREATED"

\* job j is persisted in PREPROCESSED or FAILED and released
Settled(j) == lock[j] = NoOwner /\ db[j] \in {"PREPROCESSED", "FAILED"}

\* C24: waiting jobs make progress. With no stop signal, a job that a
\* worker acquires in CREATED and that waits for parents which all come to
\* be JOB_FINISHED is eventually persisted in PREPROCESSED or FAILED and
\* released; until then a worker that holds a job in AWAITING_PARENTS and
\* was not stopped keeps looping: it does not leave its loop.
C24_WaitingJobsProgress ==
    /\ \A j \in Jobs :
          (<>[]ParentsFinished(j)) =>
              (AcquiredWaiting(j) ~> (Settled(j) \/ signalled > 0))
    /\ [](\A w \in Workers :
            (/\ \E j \in Range(cache[w]) : mem[w][j] = "AWAITING_PARENTS"
             /\ ~EXIT_FLAG[w])
                => pc[w] \notin {"finally", "done"})

\* C25: a subprocess launch failure is a job-level failure. When
\* subprocess.Popen itself raises in preprocess or postprocess (the
\* executable exists but no process can be started), the function raises a
\* transition error, which the pass turns into FAILED before it goes on to
\* the next job; no other exception leaves the function.
C25_LaunchFailureIsJobFailure ==
    (pc[Caller] = "tcalled" /\ call.popen /\ call.ev = "spawn_fail")
        => /\ exc[Caller] = "BalsamTransitionError"
           /\ after_try(Result(mem[Caller][Called], exc[Caller], NoState))
                  = "FAILED"

\* the jobs the JobStore has locked for worker w
Owned(w) == {j \in Jobs : lock[j] = w}

\* no job id is twice in the cache c
NoDuplicates(c) == \A i, k \in 1..Len(c) : i # k => c[i] # c[k]

\* worker w has just returned from refresh_cache
AfterRefresh(w) == pc[w] = "fast_forward"

\* worker w has just returned from one of the two release_jobs steps (the
\* top of the loop, the first time with the empty cache it starts with)
AfterRelease(w) == pc[w] = "loop" \/ (pc[w] = "for" /\ idx[w] = 1)

\* C26: cache equals owned set. At every step boundary of a worker's loop,
\* after refresh_cache and after each release_jobs, the job ids in its cache
\* are exactly the jobs the JobStore has locked for it (so a job dropped from
\* the cache has been unlocked), no id is in the cache twice, and after a
\* release step every job still cached is in a processable state.
C26_CacheEqualsOwned ==
    \A w \in Workers :
        /\ (AfterRefresh(w) \/ AfterRelease(w)) =>
              /\ Range(cache[w]) = Owned(w)
              /\ NoDuplicates(cache[w])
        /\ AfterRelease(w) =>
              \A j \in Range(cache[w]) : mem[w][j] \in PROCESSABLE_STATES

\* after the release step that follows a pass, a worker has dropped and
\* unlocked a job and keeps another one, which it holds in a processable
\* state
C26_Witness ==
    \E w \in Workers :
        /\ pc[w] = "loop" /\ Len(cache[w]) = 1
        /\ \E j \in Jobs \ Range(cache[w]) :
              db[j] \in {"PREPROCESSED", "FAILED", "JOB_FINISHED"} /\ lock[j] = NoOwner

\* C27: refresh drops no pending change. refresh_cache sets the last-observed
\* state of every cached job to its in-memory state and writes nothing to the
\* JobStore; whenever the loop is at the point where refresh_cache is called,
\* every cached job's in-memory state equals its persisted state, so the
\* reset of the marks discards no change that still had to be written.
C27_RefreshDropsNoChange ==
    /\ [](\A w \in Workers :
            pc[w] = "loop" => \A j \in Range(cache[w]) : mem[w][j] = db[j])
    /\ [][\A w \in Workers :
            (pc[w] = "loop" /\ pc'[w] = "fast_forward") =>
                /\ db' = db
                /\ \A j \in Range(cache[w]) : mem'[w][j] = mem[w][j]
                /\ \A j \in Range(cache'[w]) : old'[w][j] = mem'[w][j]]_vars

\* a worker is at the top of its loop, about to refresh, holding a job that
\* an earlier pass of it has changed
C27_Witness ==
    \E w \in Workers :
        /\ pc[w] = "loop" /\ ~EXIT_FLAG[w]
        /\ \E j \in Range(cache[w]) : mem[w][j] \notin {"CREATED", "AWAITING_PARENTS"}

\* the node lines of stdout that are considered: parsable, idle, and with a
\* positive backfill time in minutes (positions in stdout)
ConsideredNodes ==
    {i \in 3..Len(stdout) :
        /\ stdout[i].parses
        /\ stdout[i].state = "idle"
        /\ parse_cobalt_time_minutes(stdout[i].backfill) > 0}

\* the considered nodes that list queue q
ConsideredIn(q) == {i \in ConsideredNodes : q \in Range(stdout[i].queues)}

\* the backfill time in minutes of the node at line i
BackfillOf(i) == parse_cobalt_time_minutes(stdout[i].backfill)

====
